---- MODULE Spec2Model ----
(***************************************************************************)
(* A model of the vbr-platform backend's core: the scheduled template      *)
(* engine (services/template_scheduler.py), the reply-outcome learner      *)
(* (services/learning.py, driven by the send route of api/routes.py) and   *)
(* the draft response parser (services/ai_drafter.py).                     *)
(*                                                                         *)
(* Text is a sequence of one-character strings.  A timestamp is a number   *)
(* of hours, day * 24 + hour-of-day; a date is a day number.               *)
(***************************************************************************)
EXTENDS Integers, Sequences, FiniteSets, TLC

VARIABLES
    \* ---- template scheduler -------------------------------------------
    today,          \* date.today() of the next scan
    hour,           \* datetime.utcnow().hour of the next scan
    templates,      \* message_templates rows, by id
    reservations,   \* reservations rows (with their listing), by id
    log,            \* committed scheduled_message_log rows
    sendCount,      \* per (template, reservation): how many times
                    \* hosttools.send_message returned for it
    lastScan,       \* what the last check_and_send_templates call did, if
                    \* no time has passed since
    \* ---- reply outcome learner ----------------------------------------
    stats,          \* auto_reply_categories rows, by category
    knowledge,      \* knowledge_entries rows, in insertion order
    messages,       \* the guest rows of the conversation's messages
    lastMsg,        \* the message of the last send_message request
    prevStats,      \* stats before that request
    prevKnowledge,  \* knowledge before that request
    \* ---- draft response parser ----------------------------------------
    raw,            \* response.text handed to _parse_response
    parsed,         \* what _parse_response did with it
    \* ---- draft generation -----------------------------------------------
    lastDraft,      \* what the last POST /conversations/{id}/draft did
    \* ---- application ----------------------------------------------------
    app,            \* the FastAPI application: its phase, its services and
                    \* the background tasks it has created
    \* ---- concurrent send requests ---------------------------------------
    sessions,       \* the learner invocations in flight, each in the
                    \* session of its own send request
    \* ---- scheduler loop -------------------------------------------------
    loop,           \* where template_scheduler_loop is, and what it has done
    \* ---- template detection ---------------------------------------------
    detector,       \* the messages rows as detect_and_tag_templates reads
                    \* and tags them, and what its last run did
    \* ---- login rate limiter ---------------------------------------------
    limiter         \* time.time(), _failed_attempts, and what the last
                    \* POST /auth/login did

schedVars == <<today, hour, templates, reservations, log, sendCount, lastScan>>
learnVars == <<stats, knowledge, messages, lastMsg, prevStats, prevKnowledge>>
parseVars == <<raw, parsed>>
draftVars == <<lastDraft>>
appVars == <<app>>
extraVars == <<sessions, detector, limiter>>
loopVars == <<loop>>
vars == <<schedVars, learnVars, parseVars, draftVars, appVars, extraVars, loopVars>>

(***************************************************************************)
(* Bounds of the model.                                                    *)
(***************************************************************************)
MaxCheckIn == 2     \* the first reservation checks in on a day of 1..MaxCheckIn
MaxSends == 2       \* successful sends counted per pair
MaxKnowledge == 2   \* knowledge_entries rows
MaxDrafts == 2      \* total_drafts of a category

\* A NULL column of a string type.
None == "None"

Min(a, b) == IF a < b THEN a ELSE b
Max(a, b) == IF a > b THEN a ELSE b

\* The elements of a finite set of integers in increasing order.
RECURSIVE SortedSeq(_)
SortedSeq(S) ==
    IF S = {} THEN <<>>
    ELSE LET m == CHOOSE x \in S : \A y \in S : x <= y
         IN <<m>> \o SortedSeq(S \ {m})

(***************************************************************************)
(* Template scheduler: services/template_scheduler.py                      *)
(***************************************************************************)
TemplateIds == {1, 2}
ResIds == {1, 2}
Pairs == TemplateIds \X ResIds
\* The last day a scan runs on: after the check-out of both reservations (two
\* nights' stay, the second reservation at most a day later).
LastDay == MaxCheckIn + 4
\* The hours of the day at which the model lets a scan run: before, at and
\* after the default send hour.
ScanHours == <<9, 14, 20>>

Triggers == {"day_before_checkin", "checkin_day", "day_after_checkin",
             "day_before_checkout", "checkout_day"}

\* TRIGGER_DATE_MAP: the anchor field and the signed day offset.
TRIGGER_DATE_MAP ==
    [day_before_checkin  |-> [field |-> "check_in",  offset |-> -1],
     checkin_day         |-> [field |-> "check_in",  offset |-> 0],
     day_after_checkin   |-> [field |-> "check_in",  offset |-> 1],
     day_before_checkout |-> [field |-> "check_out", offset |-> -1],
     checkout_day        |-> [field |-> "check_out", offset |-> 0]]

\* MessageTemplate.hours_offset's column default.
DefaultSendHour == 14

\* datetime.combine(day, datetime.min.time())
Midnight(day) == day * 24

\* str.split() of a guest name: the words between runs of whitespace.  A
\* name is a sequence of words and " " separators.
Split(name) == SelectSeq(name, LAMBDA w : w # " ")

\* Line 43: reservation.guest_name.split()[0] raises IndexError when the
\* name is non-empty and all whitespace.
SubstituteRaises(r) == r.guest_name # <<>> /\ Split(r.guest_name) = <<>>

\* _substitute_placeholders: each placeholder token of the body replaced,
\* every other token kept.
SubstitutePlaceholders(body, r) ==
    LET guest_first == IF r.guest_name # <<>> THEN Split(r.guest_name)[1] ELSE "Guest"
        Subst(tok) ==
            CASE tok = "{guest_name}"   -> guest_first
              [] tok = "{check_in}"     -> <<"%d %b", r.check_in \div 24>>
              [] tok = "{check_out}"    -> <<"%d %b", r.check_out \div 24>>
              [] tok = "{listing_name}" -> r.listing_name
              [] tok = "{num_guests}"   -> r.num_guests
              [] OTHER                  -> tok
    IN [i \in 1 .. Len(body) |-> Subst(body[i])]

\* Lines 87-108: the reservations whose anchor timestamp lies in the
\* half-open day [today + offset, today + offset + 1).
MatchesTrigger(t, r, day) ==
    LET info == TRIGGER_DATE_MAP[t.trigger]
        anchor == IF info.field = "check_in" THEN r.check_in ELSE r.check_out
    IN /\ anchor >= Midnight(day + info.offset)
       /\ anchor < Midnight(day + info.offset + 1)

\* Lines 112-115: the house_code filter.
HouseSkip(t, r) ==
    /\ t.house_code # None
    /\ r.listing_house # None
    /\ r.listing_house # t.house_code
    /\ r.listing_house # "both"

\* The gate still closed at the send hour itself.
HourSkipStrict(t, h) == h <= t.hours_offset

\* Lines 118-119: the hour gate.
HourSkip(t, h) == h < t.hours_offset

\* Lines 122-131: a log row of the pair is visible to the session.
AlreadySent(rows, p) ==
    \E row \in rows : row.template_id = p[1] /\ row.reservation_id = p[2]

\* The send's exception left uncaught: it ends the scan.
OnSendFailureUncaught(acc, p) ==
    [acc EXCEPT !.failed = @ \cup {p}, !.aborted = TRUE]

\* Lines 141-146: the except branch of the send.
OnSendFailure(acc, p) == [acc EXCEPT !.failed = @ \cup {p}]

\* The row logged with the template's body as it is stored.
OnSendSuccessUnsubstituted(acc, p, body) ==
    [acc EXCEPT !.sent = @ \cup {p},
                !.delivered = @ \cup {[pair |-> p, body |-> body]},
                !.session = @ \cup {[template_id |-> p[1],
                                     reservation_id |-> p[2],
                                     body_sent |-> templates[p[1]].body]}]

\* Lines 140 and 149-155: hosttools.send_message returned for `body`
\* (recorded in `delivered`), and the log row is added to the session.
OnSendSuccess(acc, p, body) ==
    [acc EXCEPT !.sent = @ \cup {p},
                !.delivered = @ \cup {[pair |-> p, body |-> body]},
                !.session = @ \cup {[template_id |-> p[1],
                                     reservation_id |-> p[2],
                                     body_sent |-> body]}]

\* Lines 110-160: the body of the inner loop for one candidate.  `fails` is
\* the set of pairs for which hosttools.send_message raises in this scan.
ScanStep(acc, p, fails) ==
    LET t == templates[p[1]]
        r == reservations[p[2]]
    IN IF HouseSkip(t, r) THEN acc
       ELSE IF HourSkip(t, hour) THEN acc
       ELSE IF AlreadySent(acc.session, p) THEN acc
       ELSE IF SubstituteRaises(r) THEN [acc EXCEPT !.aborted = TRUE]
       ELSE IF p \in fails THEN OnSendFailure(acc, p)
       ELSE OnSendSuccess(acc, p, SubstitutePlaceholders(t.body, r))

\* Lines 68-108: the candidates of a scan in the order the loops visit
\* them: enabled templates with a known trigger, and for each the
\* reservations its date query returns.
RECURSIVE Candidates(_)
Candidates(tids) ==
    IF tids = <<>> THEN <<>>
    ELSE LET tid == Head(tids)
             t == templates[tid]
             rs == IF t.enabled /\ t.trigger \in Triggers
                   THEN SortedSeq({rid \in ResIds :
                                     MatchesTrigger(t, reservations[rid], today)})
                   ELSE <<>>
         IN [i \in 1 .. Len(rs) |-> <<tid, rs[i]>>] \o Candidates(Tail(tids))

RECURSIVE ScanLoop(_, _, _)
ScanLoop(cands, acc, fails) ==
    IF cands = <<>> \/ acc.aborted THEN acc
    ELSE ScanLoop(Tail(cands), ScanStep(acc, Head(cands), fails), fails)

\* Line 67: the session of a scan sees the committed log rows.
NewSession ==
    [session |-> log, sent |-> {}, delivered |-> {}, failed |-> {}, aborted |-> FALSE]

\* get_session: commit when the block ends normally, rollback when it raises
\* (or when the commit itself raises).
GetSessionExit(done, commitOk) ==
    IF done.aborted \/ ~commitOk THEN log ELSE done.session

\* failedOn: for each pair, the day of the last earlier scan in which its
\* send raised (-1: none yet).
NoScan ==
    [outcome |-> "none", sent |-> {}, failed |-> {}, sentIfNoFailure |-> {},
     candidates |-> {}, delivered |-> {}, failedOn |-> [p \in Pairs |-> -1]]

\* check_and_send_templates, a whole scan, one per clock reading of the
\* model.  The environment chooses the pairs whose send raises and whether
\* the commit succeeds.
CheckAndSendTemplates ==
    /\ lastScan.outcome = "none"
    /\ \A p \in Pairs : sendCount[p] < MaxSends
    /\ LET cands == Candidates(SortedSeq(TemplateIds))
           candSet == {cands[i] : i \in 1 .. Len(cands)}
       IN \E fails \in SUBSET candSet, commitOk \in BOOLEAN :
            LET done == ScanLoop(cands, NewSession, fails)
            IN /\ log' = GetSessionExit(done, commitOk)
               /\ sendCount' = [p \in Pairs |->
                                  IF p \in done.sent THEN sendCount[p] + 1
                                  ELSE sendCount[p]]
               /\ lastScan' =
                    [outcome |-> IF done.aborted THEN "raised"
                                 ELSE IF commitOk THEN "committed"
                                 ELSE "commit_failed",
                     sent |-> done.sent, failed |-> done.failed,
                     sentIfNoFailure |-> ScanLoop(cands, NewSession, {}).sent,
                     candidates |-> candSet,
                     delivered |-> done.delivered,
                     failedOn |-> lastScan.failedOn]
    /\ UNCHANGED <<today, hour, templates, reservations, learnVars, parseVars, draftVars, appVars, extraVars>>

\* One iteration of template_scheduler_loop, the loop taken as running
\* (the loop sleeps between two scans).
Scan == CheckAndSendTemplates /\ UNCHANGED loopVars

\* Time passes.
TimePasses ==
    /\ \E i \in 1 .. Len(ScanHours) :
         /\ hour = ScanHours[i]
         /\ IF i < Len(ScanHours)
            THEN hour' = ScanHours[i + 1] /\ today' = today
            ELSE today < LastDay /\ hour' = ScanHours[1] /\ today' = today + 1
    /\ lastScan' = [NoScan EXCEPT !.failedOn =
                                   [p \in Pairs |-> IF p \in lastScan.failed THEN today
                                                    ELSE lastScan.failedOn[p]]]
    /\ UNCHANGED <<templates, reservations, log, sendCount, learnVars, parseVars, draftVars, appVars, extraVars>>

\* Time passes between two scans.
Tick == TimePasses /\ UNCHANGED loopVars

GoodName == <<"Ann", " ", "Lee">>
BlankName == <<" ">>
TemplateBody == <<"Hi ", "{guest_name}", ", see you on ", "{check_in}", " {unknown}">>

InitScheduler ==
    /\ today = 0
    /\ hour = ScanHours[1]
    /\ \E trig \in Triggers \cup {"unknown_trigger"}, en \in BOOLEAN :
         templates =
           [tid \in TemplateIds |->
              IF tid = 1
              THEN [trigger |-> trig, enabled |-> TRUE, house_code |-> None,
                    hours_offset |-> DefaultSendHour, body |-> TemplateBody]
              ELSE [trigger |-> "checkin_day", enabled |-> en, house_code |-> "193",
                    hours_offset |-> DefaultSendHour, body |-> TemplateBody]]
    /\ \E ci \in 1 .. MaxCheckIn, later \in {0, 1}, nm \in {GoodName, BlankName} :
         reservations =
           [rid \in ResIds |->
              [check_in |-> IF rid = 1 THEN ci * 24 ELSE (ci + later) * 24 + 15,
               check_out |-> IF rid = 1 THEN (ci + 2) * 24 + 11
                             ELSE (ci + later + 2) * 24 + 11,
               guest_name |-> IF rid = 1 THEN GoodName ELSE nm,
               listing_house |-> IF rid = 1 THEN "193" ELSE "195",
               listing_name |-> "Room",
               num_guests |-> "2"]]
    /\ log = {}
    /\ sendCount = [p \in Pairs |-> 0]
    /\ lastScan = NoScan

\* The scopes and send hours of a template and the properties of a
\* reservation's listing: an enabled checkin_day template with each kind
\* of house_code and send hour (the other template is disabled), a
\* reservation of a listing of each house, of both, of none (no listing, or
\* a listing whose name gave no house) and a reservation of house 195, both
\* checking in on day 1.
TemplateScopes == {None, "193", "both"}
SendHours == {0, DefaultSendHour, 15, 24}
ListingHouses == {None, "193", "195", "both"}

InitGates ==
    /\ today = 0
    /\ hour = ScanHours[1]
    /\ \E scope \in TemplateScopes, h \in SendHours :
         templates =
           [tid \in TemplateIds |->
              IF tid = 1
              THEN [trigger |-> "checkin_day", enabled |-> TRUE, house_code |-> scope,
                    hours_offset |-> h, body |-> TemplateBody]
              ELSE [trigger |-> "checkin_day", enabled |-> FALSE, house_code |-> "195",
                    hours_offset |-> DefaultSendHour, body |-> TemplateBody]]
    /\ \E house \in ListingHouses :
         reservations =
           [rid \in ResIds |->
              [check_in |-> IF rid = 1 THEN 24 ELSE 39,
               check_out |-> 83,
               guest_name |-> GoodName,
               listing_house |-> IF rid = 1 THEN house ELSE "195",
               listing_name |-> "Room",
               num_guests |-> "2"]]
    /\ log = {}
    /\ sendCount = [p \in Pairs |-> 0]
    /\ lastScan = NoScan

IdleScheduler ==
    /\ today = 0
    /\ hour = ScanHours[1]
    /\ templates = <<>>
    /\ reservations = <<>>
    /\ log = {}
    /\ sendCount = <<>>
    /\ lastScan = NoScan

(***************************************************************************)
(* Reply outcome learner: services/learning.py, called by the send route   *)
(* of api/routes.py.                                                       *)
(***************************************************************************)
\* An Optional[str] column or field: NULL, or a text.
Null == [null |-> TRUE, text |-> <<>>]
Some(text) == [null |-> FALSE, text |-> text]

UpperCase == <<"A", "B", "C", "D", "E", "F", "G", "H", "I", "J", "K", "L", "M",
               "N", "O", "P", "Q", "R", "S", "T", "U", "V", "W", "X", "Y", "Z">>
LowerCase == <<"a", "b", "c", "d", "e", "f", "g", "h", "i", "j", "k", "l", "m",
               "n", "o", "p", "q", "r", "s", "t", "u", "v", "w", "x", "y", "z">>

\* str.lower(), one character.
LowerChar(c) ==
    IF \E i \in 1 .. 26 : UpperCase[i] = c
    THEN LowerCase[CHOOSE i \in 1 .. 26 : UpperCase[i] = c]
    ELSE c

\* What str.split(), str.strip() and the regex \s take for whitespace.
IsSpace(c) == c \in {" ", "\n", "\t"}

\* str.split(): the maximal runs of non-whitespace characters.
RECURSIVE SplitWords(_, _)
SplitWords(text, word) ==
    IF text = <<>> THEN (IF word = <<>> THEN <<>> ELSE <<word>>)
    ELSE IF IsSpace(Head(text))
         THEN (IF word = <<>> THEN <<>> ELSE <<word>>) \o SplitWords(Tail(text), <<>>)
         ELSE SplitWords(Tail(text), Append(word, Head(text)))

\* " ".join(words)
RECURSIVE JoinSpace(_)
JoinSpace(words) ==
    IF words = <<>> THEN <<>>
    ELSE IF Len(words) = 1 THEN words[1]
    ELSE words[1] \o <<" ">> \o JoinSpace(Tail(words))

\* text[:n]
Take(text, n) == SubSeq(text, 1, Min(n, Len(text)))

\* The [:200] of _fingerprint.
FingerprintCap == 200

\* _fingerprint: " ".join(text.lower().split())[:200]
Fingerprint(text) ==
    Take(JoinSpace(SplitWords([i \in 1 .. Len(text) |-> LowerChar(text[i])], <<>>)),
         FingerprintCap)

\* f"Preferred reply style: {final}"
AnswerPrefix ==
    <<"P", "r", "e", "f", "e", "r", "r", "e", "d", " ", "r", "e", "p", "l", "y",
      " ", "s", "t", "y", "l", "e", ":", " ">>
LearnedAnswer(final) == AnswerPrefix \o final

\* f"Guest asked: {question_context}" with the context cut to 200 characters.
QuestionPrefix ==
    <<"G", "u", "e", "s", "t", " ", "a", "s", "k", "e", "d", ":", " ">>
QuestionContextCap == 200

\* The early return for manual replies dropped.
IsManualReplyNever(m) == FALSE

\* Lines 35-38: a manual reply is not tracked.
IsManualReply(m) == ~m.ai_generated

\* Lines 40-42: the category of a message, "General" when unset or empty.
CategoryOf(m) ==
    IF m.feedback_note = None \/ m.feedback_note = "" THEN "General"
    ELSE m.feedback_note

\* Lines 45-53: the category's row, created with the column defaults on first use.
WithCategoryRow(st, category) ==
    IF category \in DOMAIN st THEN st
    ELSE st @@ (category :> [total_drafts |-> 0, sent_unedited |-> 0])

\* Line 55.
IncrementTotal(st, category) == [st EXCEPT ![category].total_drafts = @ + 1]

\* The accuracy counter left alone.
IncrementUneditedNot(st, category) == st

\* Line 60.
IncrementUnedited(st, category) == [st EXCEPT ![category].sent_unedited = @ + 1]

\* The texts compared as they are, not by fingerprint.
TrivialEditExact(original, final) == original = final

\* Lines 76-79: the edit changed nothing but case and whitespace.
TrivialEdit(original, final) == Fingerprint(original) = Fingerprint(final)

\* Lines 82-92: a learned entry of the category whose answer has the
\* fingerprint of the final body.
DuplicateLearned(kn, category, final) ==
    \E i \in 1 .. Len(kn) :
       /\ kn[i].source = "learned"
       /\ kn[i].category = category
       /\ Fingerprint(kn[i].answer) = Fingerprint(final)

\* Lines 98-109: the body of the last guest message of the conversation
\* (the model holds only guest messages older than the one being sent).
QuestionContext(msgs) ==
    IF msgs = <<>> THEN Null
    ELSE Some(Take(msgs[Len(msgs)].body, QuestionContextCap))

\* Lines 112-118: the question is left NULL when there is no guest message
\* or its body is empty.
LearnedEntry(category, context, final) ==
    [category |-> category,
     question |-> IF context.null \/ context.text = <<>> THEN Null
                  ELSE Some(QuestionPrefix \o context.text),
     answer |-> LearnedAnswer(final),
     source |-> "learned",
     active |-> TRUE]

\* record_reply_outcome against the session's view of the category rows
\* and the knowledge entries: what the session holds afterwards, whether
\* the call raised, and whether it left the session's transaction rolled
\* back.  flushOk is the outcome of the flush at line 53, which sends the
\* INSERT of a new category row (the column is unique: the INSERT fails
\* when a concurrent request has committed the same category since the
\* SELECT at line 45, or when the database cannot be reached); a flush
\* that fails rolls the transaction back.
RecordReplyOutcome(st, kn, msgs, m, r, flushOk) ==
    IF IsManualReply(m)
    THEN [stats |-> st, knowledge |-> kn, raised |-> FALSE, inactive |-> FALSE]
    ELSE
      LET category == CategoryOf(m)
          counted == IncrementTotal(WithCategoryRow(st, category), category)
          original == m.original_ai_draft
          final == m.body
      IN IF category \notin DOMAIN st /\ ~flushOk     \* line 53 raises
         THEN [stats |-> st, knowledge |-> kn, raised |-> TRUE, inactive |-> TRUE]
         ELSE IF ~m.was_edited
         THEN [stats |-> IncrementUnedited(counted, category), knowledge |-> kn,
               raised |-> FALSE, inactive |-> FALSE]
         ELSE IF original.null \/ original.text = <<>> \/ final = <<>>
         THEN [stats |-> counted, knowledge |-> kn, raised |-> FALSE, inactive |-> FALSE]
         ELSE IF TrivialEdit(original.text, final)
         THEN [stats |-> counted, knowledge |-> kn, raised |-> FALSE, inactive |-> FALSE]
         ELSE IF DuplicateLearned(kn, category, final)
         THEN [stats |-> counted, knowledge |-> kn, raised |-> FALSE, inactive |-> FALSE]
         ELSE IF SubstituteRaises(r)      \* line 95: guest_name.split()[0]
         THEN [stats |-> counted, knowledge |-> kn, raised |-> TRUE, inactive |-> FALSE]
         ELSE [stats |-> counted,
               knowledge |-> Append(kn, LearnedEntry(category, QuestionContext(msgs), final)),
               raised |-> FALSE, inactive |-> FALSE]

\* routes.py lines 650-661: the Message row of a send request.
MessageOf(req) ==
    [sender |-> "host",
     body |-> req.body,
     ai_generated |-> ~req.original_ai_draft.null,
     was_edited |-> req.was_edited,
     original_ai_draft |-> req.original_ai_draft,
     feedback_note |-> req.ai_category]

\* stored: the request's Message row is committed.
NoMessage ==
    [status |-> 0, learnRaised |-> FALSE, stored |-> FALSE,
     message |-> MessageOf([body |-> <<>>, was_edited |-> FALSE,
                            original_ai_draft |-> Null, ai_category |-> None])]

Hi == <<"H", "i">>
HiSpaced == <<"h", "i", " ">>
Bye == <<"B", "y", "e">>
ByeLower == <<" ", "b", "y", "e">>
RequestBodies == {HiSpaced, Bye, ByeLower, <<>>}
Requests ==
    [body : RequestBodies, was_edited : BOOLEAN,
     original_ai_draft : {Null, Some(Hi)}, ai_category : {None, "WiFi"}]

\* database.py lines 37-42 after the learner was caught (routes.py lines
\* 666-670): the commit of a session whose flush failed raises, and the
\* rollback drops the Message row flushed at line 663; otherwise the row
\* and what the learner left in the session are committed.
CommitAfterLearner(st, kn, out, m) ==
    IF out.inactive
    THEN [stats |-> st, knowledge |-> kn,
          last |-> [status |-> 500, learnRaised |-> TRUE, stored |-> FALSE,
                    message |-> m]]
    ELSE [stats |-> out.stats, knowledge |-> out.knowledge,
          last |-> [status |-> 200, learnRaised |-> out.raised, stored |-> TRUE,
                    message |-> m]]

\* POST /conversations/{reservation_id}/send, the whole request: the
\* Host Tools send, the Message row, the learner inside its try/except, and
\* the commit of get_session.
SendMessage ==
    /\ Len(knowledge) < MaxKnowledge
    /\ \A c \in DOMAIN stats : stats[c].total_drafts < MaxDrafts
    /\ \E rid \in ResIds, req \in Requests, sendOk \in BOOLEAN, flushOk \in BOOLEAN :
         IF rid \notin DOMAIN reservations
         THEN \* 404: raised inside get_session, nothing was written
              /\ lastMsg' = [NoMessage EXCEPT !.status = 404]
              /\ prevStats' = stats /\ prevKnowledge' = knowledge
              /\ UNCHANGED <<stats, knowledge>>
         ELSE IF ~sendOk
         THEN \* 502: Host Tools raised, nothing was written
              /\ lastMsg' = [NoMessage EXCEPT !.status = 502]
              /\ prevStats' = stats /\ prevKnowledge' = knowledge
              /\ UNCHANGED <<stats, knowledge>>
         ELSE LET m == MessageOf(req)
                  out == RecordReplyOutcome(stats, knowledge, messages, m,
                                            reservations[rid], flushOk)
                  end == CommitAfterLearner(stats, knowledge, out, m)
              IN /\ stats' = end.stats
                 /\ knowledge' = end.knowledge
                 /\ lastMsg' = end.last
                 /\ prevStats' = stats
                 /\ prevKnowledge' = knowledge
    /\ UNCHANGED <<reservations, messages, parseVars, draftVars, appVars, extraVars, loopVars>>
    /\ UNCHANGED <<today, hour, templates, log, sendCount, lastScan>>

ManualEntry ==
    [category |-> "WiFi", question |-> Null, answer |-> LearnedAnswer(Bye),
     source |-> "manual", active |-> TRUE]

InitLearner ==
    /\ stats = <<>>
    /\ knowledge \in {<<>>, <<ManualEntry>>}
    /\ messages \in {<<>>, <<[sender |-> "guest", body |-> Hi]>>}
    /\ lastMsg = NoMessage
    /\ prevStats = <<>>
    /\ prevKnowledge = knowledge
    /\ \E nm \in {GoodName, BlankName} :
         reservations =
           [rid \in {1} |->
              [check_in |-> 24, check_out |-> 72, guest_name |-> nm,
               listing_house |-> "193", listing_name |-> "Room",
               num_guests |-> "2"]]

IdleLearner ==
    /\ stats = <<>>
    /\ knowledge = <<>>
    /\ messages = <<>>
    /\ lastMsg = NoMessage
    /\ prevStats = <<>>
    /\ prevKnowledge = <<>>

(***************************************************************************)
(* Draft response parser: AIDrafter._parse_response of                     *)
(* services/ai_drafter.py.                                                 *)
(***************************************************************************)
MaxSegs == 4        \* segments of a generated model output

ReplyLabel == <<"R", "E", "P", "L", "Y", ":">>
ConfidenceLabel == <<"C", "O", "N", "F", "I", "D", "E", "N", "C", "E", ":">>
CategoryLabel == <<"C", "A", "T", "E", "G", "O", "R", "Y", ":">>
\* "\nCONFIDENCE:", the marker that ends the reply.
ConfidenceMarker == <<"\n">> \o ConfidenceLabel
General == <<"G", "e", "n", "e", "r", "a", "l">>

QUESTION_CATEGORIES ==
    {<<"W", "i", "F", "i">>,
     <<"C", "h", "e", "c", "k", "I", "n">>,
     <<"C", "h", "e", "c", "k", "O", "u", "t">>,
     <<"B", "a", "t", "h", "r", "o", "o", "m">>,
     <<"K", "i", "t", "c", "h", "e", "n">>,
     <<"L", "a", "u", "n", "d", "r", "y">>,
     <<"H", "e", "a", "t", "i", "n", "g">>,
     <<"T", "V">>,
     <<"T", "r", "a", "n", "s", "p", "o", "r", "t">>,
     <<"L", "o", "c", "a", "l", "A", "r", "e", "a">>,
     <<"L", "o", "c", "k", "I", "n", "f", "o">>,
     <<"A", "m", "e", "n", "i", "t", "i", "e", "s">>,
     <<"E", "a", "r", "l", "y", "C", "h", "e", "c", "k", "I", "n">>,
     <<"L", "a", "t", "e", "C", "h", "e", "c", "k", "O", "u", "t">>,
     <<"L", "u", "g", "g", "a", "g", "e", "S", "t", "o", "r", "a", "g", "e">>,
     <<"C", "o", "m", "p", "l", "a", "i", "n", "t">>,
     <<"E", "m", "e", "r", "g", "e", "n", "c", "y">>,
     <<"P", "r", "i", "c", "i", "n", "g">>,
     <<"C", "a", "n", "c", "e", "l", "l", "a", "t", "i", "o", "n">>,
     <<"S", "p", "e", "c", "i", "a", "l", "R", "e", "q", "u", "e", "s", "t">>,
     <<"G", "e", "n", "e", "r", "a", "l">>}

Digits == <<"0", "1", "2", "3", "4", "5", "6", "7", "8", "9">>
\* The regex \d, [\d.] and \w.
IsDigit(c) == \E i \in 1 .. 10 : Digits[i] = c
IsNumChar(c) == IsDigit(c) \/ c = "."
IsWordChar(c) ==
    \/ IsDigit(c)
    \/ c = "_"
    \/ \E i \in 1 .. 26 : UpperCase[i] = c \/ LowerCase[i] = c

\* pat occurs in text at position i.
HasAt(text, i, pat) ==
    /\ i >= 1
    /\ i + Len(pat) - 1 <= Len(text)
    /\ SubSeq(text, i, i + Len(pat) - 1) = pat

\* The character classes of the regexes, by name.
InClass(class, c) ==
    CASE class = "space" -> IsSpace(c)
      [] class = "num"   -> IsNumChar(c)
      [] class = "word"  -> IsWordChar(c)

\* One past the maximal run, from position i, of characters of a class.
RunEnd(text, i, class) ==
    CHOOSE e \in i .. Len(text) + 1 :
       /\ \A k \in i .. e - 1 : InClass(class, text[k])
       /\ e = Len(text) + 1 \/ ~InClass(class, text[e])

SetMin(S) == CHOOSE x \in S : \A y \in S : x <= y
SetMax(S) == CHOOSE x \in S : \A y \in S : x >= y

\* str.strip()
Strip(text) ==
    LET solid == {i \in 1 .. Len(text) : ~IsSpace(text[i])}
    IN IF solid = {} THEN <<>> ELSE SubSeq(text, SetMin(solid), SetMax(solid))

\* Lines 252-256: re.search(r"REPLY:\s*\n(.*?)(?=\nCONFIDENCE:|\Z)", raw,
\* re.DOTALL).  The greedy \s* gives back as little as the \n asks for, so
\* the group starts after the last newline of the whitespace that follows
\* the leftmost label that has one; the lazy group ends before the first
\* "\nCONFIDENCE:" or at the end of the text.  [matched, group]
SearchReply(text) ==
    LET labelEnd(i) == i + Len(ReplyLabel)
        newlines(i) == {n \in labelEnd(i) .. RunEnd(text, labelEnd(i), "space") - 1 :
                          text[n] = "\n"}
        starts == {i \in 1 .. Len(text) : HasAt(text, i, ReplyLabel) /\ newlines(i) # {}}
    IN IF starts = {} THEN [matched |-> FALSE, group |-> <<>>]
       ELSE LET from == SetMax(newlines(SetMin(starts))) + 1
                to == SetMin({j \in from .. Len(text) + 1 :
                                j = Len(text) + 1 \/ HasAt(text, j, ConfidenceMarker)})
            IN [matched |-> TRUE, group |-> SubSeq(text, from, to - 1)]

\* Line 260: re.sub(r"\nCONFIDENCE:.*", "", draft, flags=re.DOTALL)
CutAtMarker(draft) ==
    LET at == {j \in 1 .. Len(draft) : HasAt(draft, j, ConfidenceMarker)}
    IN IF at = {} THEN draft ELSE SubSeq(draft, 1, SetMin(at) - 1)

\* Lines 257-260: the reply, or the whole text when no reply label matches.
DraftOf(text) ==
    LET m == SearchReply(text)
    IN Strip(CutAtMarker(IF m.matched THEN Strip(m.group) ELSE Strip(text)))

\* re.search(label + r"\s*(class+)", raw): the leftmost label that is
\* followed, after any whitespace, by a character of the class; the group is
\* the maximal run of the class from there.  [matched, group]
SearchLabelled(text, label, class) ==
    LET valueAt(i) == RunEnd(text, i + Len(label), "space")
        starts == {i \in 1 .. Len(text) :
                     /\ HasAt(text, i, label)
                     /\ valueAt(i) <= Len(text)
                     /\ InClass(class, text[valueAt(i)])}
    IN IF starts = {} THEN [matched |-> FALSE, group |-> <<>>]
       ELSE LET from == valueAt(SetMin(starts))
            IN [matched |-> TRUE,
                group |-> SubSeq(text, from, RunEnd(text, from, class) - 1)]

\* Line 263: re.search(r"CONFIDENCE:\s*([\d.]+)", raw)
SearchConfidence(text) == SearchLabelled(text, ConfidenceLabel, "num")

\* Line 267: re.search(r"CATEGORY:\s*(\w+)", raw)
SearchCategory(text) == SearchLabelled(text, CategoryLabel, "word")

\* float() of a run of digits and dots raises ValueError unless the run has
\* a digit and at most one dot.
FloatRaises(num) ==
    \/ \A i \in 1 .. Len(num) : num[i] = "."
    \/ Cardinality({i \in 1 .. Len(num) : num[i] = "."}) > 1

DigitValue(c) == (CHOOSE i \in 1 .. 10 : Digits[i] = c) - 1

RECURSIVE DigitsValue(_)
DigitsValue(ds) ==
    IF ds = <<>> THEN 0
    ELSE DigitsValue(SubSeq(ds, 1, Len(ds) - 1)) * 10 + DigitValue(ds[Len(ds)])

RECURSIVE Pow10(_)
Pow10(n) == IF n = 0 THEN 1 ELSE 10 * Pow10(n - 1)

\* float() of a run of digits with at most one dot, as a fraction.
FloatOf(num) ==
    LET dots == {i \in 1 .. Len(num) : num[i] = "."}
        decimals == IF dots = {} THEN 0 ELSE Len(num) - SetMin(dots)
    IN [num |-> DigitsValue(SelectSeq(num, IsDigit)), den |-> Pow10(decimals)]

\* Comparison of fractions with positive denominators.
FracLeq(a, b) == a.num * b.den <= b.num * a.den
FracEq(a, b) == a.num * b.den = b.num * a.den
FracMin(a, b) == IF FracLeq(a, b) THEN a ELSE b
FracMax(a, b) == IF FracLeq(a, b) THEN b ELSE a
Zero == [num |-> 0, den |-> 1]
One == [num |-> 1, den |-> 1]

\* Line 264: the confidence when the label is not found.
DefaultConfidence == [num |-> 7, den |-> 10]

\* The value returned as it is.
ClampNot(c) == c

\* Line 272: min(max(confidence, 0.0), 1.0)
Clamp(c) == FracMin(FracMax(c, Zero), One)

\* Lines 268-270: a token outside the closed list becomes "General".
CategoryOrGeneral(token) ==
    IF token \in QUESTION_CATEGORIES THEN token ELSE General

Raised == [status |-> "raised", draft |-> <<>>, confidence |-> Zero, category |-> <<>>]
NotParsed == [status |-> "none", draft |-> <<>>, confidence |-> Zero, category |-> <<>>]

\* _parse_response: the triple returned, or "raised".  re.search raises
\* TypeError for a raw that is None, float() ValueError for a bad number.
ParseResponse(rawText) ==
    IF rawText.null THEN Raised
    ELSE LET text == rawText.text
             conf == SearchConfidence(text)
             cat == SearchCategory(text)
         IN IF conf.matched /\ FloatRaises(conf.group) THEN Raised
            ELSE [status |-> "ok",
                  draft |-> DraftOf(text),
                  confidence |-> Clamp(IF conf.matched THEN FloatOf(conf.group)
                                       ELSE DefaultConfidence),
                  category |-> CategoryOrGeneral(IF cat.matched THEN cat.group
                                                 ELSE General)]

\* The pieces model outputs are assembled from.
WiFi == <<"W", "i", "F", "i">>
Segments ==
    {ReplyLabel, ConfidenceLabel, CategoryLabel, <<"\n">>, <<" ">>, <<"1">>, <<".">>,
     <<"-">>, WiFi}

RECURSIVE Concat(_)
Concat(segs) == IF segs = <<>> THEN <<>> ELSE Head(segs) \o Concat(Tail(segs))

\* The outputs of the specification's examples.
SpecExample == <<"R", "E", "P", "L", "Y", ":", "\n", "H", "e", "l", "l", "o", " ", "t", "h", "e", "r", "e", "\n", "\n", "C", "O", "N", "F", "I", "D", "E", "N", "C", "E", ":", " ", "0", ".", "8", "5", "\n", "C", "A", "T", "E", "G", "O", "R", "Y", ":", " ", "W", "i", "F", "i">>
HelloThere == <<"H", "e", "l", "l", "o", " ", "t", "h", "e", "r", "e">>
ClampExample == <<"C", "O", "N", "F", "I", "D", "E", "N", "C", "E", ":", " ", "1", ".", "5">>
NoLabels == <<"S", "u", "r", "e", ",", " ", "s", "e", "e", " ", "y", "o", "u", " ", "s", "o", "o", "n", ".">>
CategoryFirst == <<"R", "E", "P", "L", "Y", ":", "\n", "H", "i", "\n", "C", "A", "T", "E", "G", "O", "R", "Y", ":", " ", "W", "i", "F", "i", "\n", "C", "O", "N", "F", "I", "D", "E", "N", "C", "E", ":", " ", "0", ".", "8">>
BadNumber == <<"R", "E", "P", "L", "Y", ":", "\n", "H", "i", "\n", "C", "O", "N", "F", "I", "D", "E", "N", "C", "E", ":", " ", "1", ".", "2", ".", "3", "\n", "C", "A", "T", "E", "G", "O", "R", "Y", ":", " ", "W", "i", "F", "i">>
Examples == {SpecExample, ClampExample, NoLabels, CategoryFirst, BadNumber}

ModelOutputs ==
    {Null} \cup {Some(t) : t \in Examples}
    \cup {Some(Concat(segs)) : segs \in UNION {[1 .. n -> Segments] : n \in 0 .. MaxSegs}}

\* generate_draft lines 141-143: the model's text handed to the parser.
ParseDraft ==
    /\ parsed.status = "none"
    /\ parsed' = ParseResponse(raw)
    /\ UNCHANGED <<raw, schedVars, learnVars, draftVars, appVars, extraVars, loopVars>>

InitParser ==
    /\ raw \in ModelOutputs
    /\ parsed = NotParsed

IdleParser ==
    /\ raw = Null
    /\ parsed = NotParsed

(***************************************************************************)
(* The application: lifespan of main.py.                                   *)
(***************************************************************************)
\* Before uvicorn has run the lifespan.
NotStarted == [phase |-> "down", hosttools |-> FALSE, tasks |-> {}]

\* Lines 41-76, the startup half of lifespan: the database, the Host Tools
\* client when a token is configured, the ntfy client and the drafter are
\* created and handed to the routes.  No asyncio task is created: nothing in
\* the application calls template_scheduler_loop.
Lifespan ==
    /\ app.phase = "down"
    /\ \E token \in BOOLEAN :
         app' = [phase |-> "running", hosttools |-> token, tasks |-> {}]
    /\ UNCHANGED <<schedVars, learnVars, parseVars, draftVars, extraVars, loopVars>>

\* Lines 78-84, the shutdown half: the clients are closed.
Shutdown ==
    /\ app.phase = "running"
    /\ app' = [app EXCEPT !.phase = "stopped", !.hosttools = FALSE]
    /\ UNCHANGED <<schedVars, learnVars, parseVars, draftVars, extraVars, loopVars>>

IdleApp == app = NotStarted

(***************************************************************************)
(* Draft generation: AIDrafter.generate_draft of services/ai_drafter.py    *)
(* behind POST /conversations/{reservation_id}/draft of api/routes.py.     *)
(***************************************************************************)
MaxMessages == 22   \* messages rows

\* The [-20:] of _build_user_prompt.
HistoryCap == 20

\* "[193 only]" and "[195 only]", the tags _get_relevant_knowledge looks for.
Tag193 == <<"[", "1", "9", "3", " ", "o", "n", "l", "y", "]">>
Tag195 == <<"[", "1", "9", "5", " ", "o", "n", "l", "y", "]">>

\* text.lower()
Lower(text) == [i \in 1 .. Len(text) |-> LowerChar(text[i])]

\* pat in text
Contains(text, pat) == \E i \in 1 .. Len(text) : HasAt(text, i, pat)

\* Lines 181-188: the entry is skipped for this house.
WrongHouse(entry, house_code) ==
    LET answer_lower == Lower(entry.answer)
    IN \/ house_code = "193" /\ Contains(answer_lower, Tag195)
       \/ house_code = "195" /\ Contains(answer_lower, Tag193)

\* _get_relevant_knowledge: the ids (positions) of the active entries that
\* are not skipped, in row order.
RECURSIVE RelevantFrom(_, _, _)
RelevantFrom(kn, i, house_code) ==
    IF i > Len(kn) THEN <<>>
    ELSE (IF kn[i].active /\ ~WrongHouse(kn[i], house_code) THEN <<i>> ELSE <<>>)
         \o RelevantFrom(kn, i + 1, house_code)

GetRelevantKnowledge(kn, house_code) == RelevantFrom(kn, 1, house_code)

\* Lines 103-112: the reservation's rows that are neither templates nor
\* drafts, ordered by timestamp.
RECURSIVE OrderByTimestamp(_)
OrderByTimestamp(rows) ==
    IF rows = {} THEN <<>>
    ELSE LET first == CHOOSE m \in rows : \A o \in rows : m.timestamp <= o.timestamp
         IN <<first>> \o OrderByTimestamp(rows \ {first})

ConversationHistory(msgs, rid) ==
    OrderByTimestamp({msgs[i] : i \in {k \in 1 .. Len(msgs) :
                                         /\ msgs[k].reservation_id = rid
                                         /\ ~msgs[k].is_template
                                         /\ ~msgs[k].is_draft}})

\* Every message of the history kept.
RecentMessagesAll(history) == history

\* Line 226: messages[-20:]
RecentMessages(history) ==
    SubSeq(history, Max(Len(history) - HistoryCap, 0) + 1, Len(history))

\* Lines 228-231: one line of the conversation section.
ConversationLine(msg) ==
    [time |-> msg.timestamp,
     role |-> IF msg.sender = "guest" THEN "GUEST" ELSE "HOST",
     body |-> msg.body]

\* Line 203 and the f-string of line 208: the house of the booking context,
\* "unknown" when the reservation has no listing, else the listing's
\* house_code as str() renders it (a NULL house_code as "None").
RenderHouse(r) ==
    IF ~r.has_listing THEN "unknown"
    ELSE IF r.listing_house = None THEN "None"
    ELSE r.listing_house

\* _build_user_prompt: the three sections (the task section is constant).
BuildUserPrompt(r, history, relevant) ==
    LET recent == RecentMessages(history)
    IN [guest_first |-> IF r.guest_name # <<>> THEN Split(r.guest_name)[1] ELSE "Guest",
        house |-> RenderHouse(r),
        knowledge |-> relevant,
        conversation |-> [i \in 1 .. Len(recent) |-> ConversationLine(recent[i])]]

NoPrompt == [guest_first |-> "", house |-> "", knowledge |-> <<>>, conversation |-> <<>>]

NoResult ==
    [null |-> TRUE, draft |-> <<>>, confidence |-> Zero, category |-> <<>>,
     knowledge_used |-> <<>>]

\* What the model client does with a request: returns a response with a text
\* (or none), or raises; an exception is a ValueError (or a subclass of it)
\* or not.
ModelReplies ==
    {[kind |-> "ok", text |-> Some(SpecExample)],
     [kind |-> "ok", text |-> Some(NoLabels)],
     [kind |-> "ok", text |-> Some(BadNumber)],
     [kind |-> "ok", text |-> Null],
     [kind |-> "ValueError", text |-> Null],
     [kind |-> "APIError", text |-> Null]}

Outcome(exc, calls, callFailed, prompt, result) ==
    [exc |-> exc, modelCalls |-> calls, callFailed |-> callFailed,
     prompt |-> prompt, result |-> result]

\* AIDrafter.generate_draft for a reservation id, given what the model client
\* does when it is called: the exception that leaves the method ("none" when
\* it returns), how many times the client was called, and the result.
GenerateDraftCall(rid, reply) ==
    IF rid \notin DOMAIN reservations
    THEN Outcome("ValueError", 0, FALSE, NoPrompt, NoResult)          \* line 100
    ELSE
      LET r == reservations[rid]
          history == ConversationHistory(messages, rid)
          relevant == GetRelevantKnowledge(knowledge, r.listing_house)
      IN IF history = <<>>
         THEN Outcome("ValueError", 0, FALSE, NoPrompt, NoResult)     \* line 115
         ELSE IF SubstituteRaises(r)
         THEN Outcome("IndexError", 0, FALSE, NoPrompt, NoResult)     \* line 204
         ELSE
           LET prompt == BuildUserPrompt(r, history, relevant)
           IN IF reply.kind # "ok"
              THEN Outcome(reply.kind, 1, TRUE, prompt, NoResult)     \* line 130
              ELSE
                LET p == ParseResponse(reply.text)
                IN IF p.status = "raised"                            \* line 143
                   THEN Outcome(IF reply.text.null THEN "TypeError" ELSE "ValueError",
                                1, FALSE, prompt, NoResult)
                   ELSE Outcome("none", 1, FALSE, prompt,
                                [null |-> FALSE, draft |-> p.draft,
                                 confidence |-> p.confidence,
                                 category |-> p.category,
                                 knowledge_used |-> relevant])

\* routes.py lines 686-694: the status of the response.
DraftStatus(exc) ==
    CASE exc = "none"       -> 200
      [] exc = "ValueError" -> 400
      [] OTHER              -> 500

\* The draft stored as an unsent message of the conversation.
DraftWritesStored(msgs, rid, out) ==
    IF out.result.null THEN msgs
    ELSE Append(msgs, [id |-> Len(msgs) + 1, reservation_id |-> rid,
                       timestamp |-> Len(msgs) + 1, sender |-> "ai",
                       body |-> 0, is_template |-> FALSE, is_draft |-> TRUE])

\* The messages table after the request's session ends: generate_draft and
\* its route add, change and delete no row (there is no session.add in
\* lines 76-163 of ai_drafter.py nor in lines 679-694 of routes.py).
DraftWrites(msgs, rid, out) == msgs

\* A reservation id no row has.
UnknownResId == 3

NoDraft ==
    [status |-> 0, rid |-> 0, exc |-> "none", modelCalls |-> 0,
     callFailed |-> FALSE, prompt |-> NoPrompt, result |-> NoResult]

\* POST /conversations/{reservation_id}/draft, the whole request.  The
\* model takes one request per behaviour: a request reads nothing that an
\* earlier one left behind.
GenerateDraft ==
    /\ lastDraft.status = 0
    /\ \E rid \in ResIds \cup {UnknownResId}, configured \in BOOLEAN,
          reply \in ModelReplies :
         IF ~configured
         THEN \* line 683: no drafter was set up
              /\ lastDraft' = [NoDraft EXCEPT !.status = 503, !.rid = rid]
              /\ UNCHANGED messages
         ELSE LET out == GenerateDraftCall(rid, reply)
              IN /\ lastDraft' =
                      [status |-> DraftStatus(out.exc), rid |-> rid,
                       exc |-> out.exc, modelCalls |-> out.modelCalls,
                       callFailed |-> out.callFailed, prompt |-> out.prompt,
                       result |-> out.result]
                 /\ messages' = DraftWrites(messages, rid, out)
    /\ UNCHANGED <<today, hour, templates, reservations, log, sendCount, lastScan>>
    /\ UNCHANGED <<stats, knowledge, lastMsg, prevStats, prevKnowledge, parseVars,
                 appVars, extraVars, loopVars>>

\* The rows of a conversation: `count` messages, every other one the
\* guest's, stored in the order of their timestamps or against it, some of
\* them templates, drafts or rows of the other reservation.
MessageShapes == {"plain", "reversed", "templates", "drafts", "mixed"}
\* None, a few, and as many as the history cap give or take.
MessageCounts == (0 .. 2) \cup (HistoryCap - 2 .. MaxMessages)
MessageRow(i, count, shape) ==
    [id |-> i,
     reservation_id |-> IF shape = "mixed" /\ i % 5 = 2 THEN 2 ELSE 1,
     timestamp |-> IF shape = "reversed" THEN count + 1 - i ELSE i,
     sender |-> IF i % 2 = 1 THEN "guest" ELSE "host",
     body |-> i,
     is_template |-> shape \in {"templates", "mixed"} /\ i % 3 = 0,
     is_draft |-> shape \in {"drafts", "mixed"} /\ i % 4 = 1]

\* Knowledge entries by their tags.
Untagged == <<"W", "i", "F", "i">>
KnowledgeRow(answer, active) ==
    [category |-> "WiFi", question |-> Null, answer |-> answer,
     source |-> "manual", active |-> active]
SingleTagged ==
    <<KnowledgeRow(Untagged, TRUE),
      KnowledgeRow(Tag193 \o Untagged, TRUE),
      KnowledgeRow(Untagged \o <<"[", "1", "9", "5", " ", "O", "N", "L", "Y", "]">>, TRUE),
      KnowledgeRow(Untagged, FALSE),
      KnowledgeRow(Tag193 \o Untagged, FALSE)>>
BothTagged == KnowledgeRow(Tag193 \o Untagged \o Tag195 \o Untagged, TRUE)
KnowledgeSets == {<<>>, SingleTagged, Append(SingleTagged, BothTagged)}

\* A reservation without a listing row.
NoListing == "no listing"

InitDrafter ==
    /\ \E count \in MessageCounts, shape \in MessageShapes :
         messages = [i \in 1 .. count |-> MessageRow(i, count, shape)]
    /\ knowledge \in KnowledgeSets
    /\ \E house \in {"193", "195", "both", None, NoListing},
          nm \in {GoodName, BlankName} :
         reservations =
           [rid \in ResIds |->
              [check_in |-> 24, check_out |-> 72,
               guest_name |-> IF rid = 1 THEN nm ELSE GoodName,
               has_listing |-> rid # 1 \/ house # NoListing,
               listing_house |-> IF rid # 1 THEN "195"
                                 ELSE IF house = NoListing THEN None ELSE house,
               listing_name |-> "Room", num_guests |-> "2"]]
    /\ stats = <<>>
    /\ lastMsg = NoMessage
    /\ prevStats = <<>>
    /\ prevKnowledge = <<>>
    /\ lastDraft = NoDraft

IdleDrafter == lastDraft = NoDraft

(***************************************************************************)
(* Concurrent send requests: record_reply_outcome of services/learning.py  *)
(* run by several requests at once, each in its own session, against the   *)
(* committed auto_reply_categories row of one category.  The messages are  *)
(* AI drafts of category "WiFi", sent unedited or with a trivial edit, so   *)
(* that the learner touches the category row only.  A session reads        *)
(* committed rows (READ COMMITTED, the PostgreSQL default); with SQLite the *)
(* write lock taken by the flush of the Message row (routes.py line 663)   *)
(* lets only the behaviours in which the requests follow one another.      *)
(***************************************************************************)
Sessions == {1, 2}
MaxInvocations == 3     \* learner invocations started, over all sessions
ConcCategory == "WiFi"

NoRow == [present |-> FALSE, total_drafts |-> 0, sent_unedited |-> 0]
IdleSession == [pc |-> "idle", seen |-> NoRow, unedited |-> FALSE]
NoSessions == [inv |-> [s \in Sessions |-> IdleSession], invoked |-> 0, raised |-> 0]

\* The committed row of the category as a SELECT sees it.
CommittedRow ==
    IF ConcCategory \in DOMAIN stats
    THEN [present |-> TRUE, total_drafts |-> stats[ConcCategory].total_drafts,
          sent_unedited |-> stats[ConcCategory].sent_unedited]
    ELSE NoRow

\* Lines 45-48: the request has flushed its Message row and the learner
\* SELECTs the category row into its session.
SelectCategory(s) ==
    /\ sessions.inv[s].pc = "idle"
    /\ sessions.invoked < MaxInvocations
    /\ \E unedited \in BOOLEAN :
         sessions' = [sessions EXCEPT
                        !.inv[s] = [pc |-> "selected", seen |-> CommittedRow,
                                    unedited |-> unedited],
                        !.invoked = @ + 1]
    /\ UNCHANGED <<schedVars, learnVars, parseVars, draftVars, appVars, loopVars, detector, limiter>>

\* Lines 50-53: no row was seen, so the row is added and flushed.  The
\* INSERT waits for an uncommitted INSERT of the same category by another
\* session, and raises IntegrityError (category is unique) when the row has
\* been committed since the SELECT: the flush fails, the request's
\* transaction is rolled back and nothing of the invocation is committed.
FlushNewRow(s) ==
    /\ sessions.inv[s].pc = "selected"
    /\ ~sessions.inv[s].seen.present
    /\ \A o \in Sessions \ {s} : sessions.inv[o].pc # "inserted"
    /\ sessions' =
         IF CommittedRow.present
         THEN [sessions EXCEPT !.inv[s] = IdleSession, !.raised = @ + 1]
         ELSE [sessions EXCEPT !.inv[s].pc = "inserted"]
    /\ UNCHANGED <<schedVars, learnVars, parseVars, draftVars, appVars, loopVars, detector, limiter>>

\* Lines 55-67 and the commit of get_session: total_drafts += 1 (and
\* sent_unedited += 1 for an unedited draft) are computed in Python from the
\* values the session read, and the flush writes the results as they are
\* (UPDATE ... SET total_drafts = <value>, or the INSERT of the new row).
CommitCounters(s) ==
    /\ \/ sessions.inv[s].pc = "inserted"
       \/ sessions.inv[s].pc = "selected" /\ sessions.inv[s].seen.present
    /\ LET seen == sessions.inv[s].seen
       IN stats' = [c \in DOMAIN stats \cup {ConcCategory} |->
                      IF c = ConcCategory
                      THEN [total_drafts |-> seen.total_drafts + 1,
                            sent_unedited |-> IF sessions.inv[s].unedited
                                              THEN seen.sent_unedited + 1
                                              ELSE seen.sent_unedited]
                      ELSE stats[c]]
    /\ sessions' = [sessions EXCEPT !.inv[s] = IdleSession]
    /\ prevStats' = stats
    /\ UNCHANGED <<knowledge, messages, lastMsg, prevKnowledge>>
    /\ UNCHANGED <<schedVars, parseVars, draftVars, appVars, loopVars, detector, limiter>>

InitSessions ==
    /\ stats \in {<<>>, (ConcCategory :> [total_drafts |-> 0, sent_unedited |-> 0])}
    /\ knowledge = <<>>
    /\ messages = <<>>
    /\ lastMsg = NoMessage
    /\ prevStats = stats
    /\ prevKnowledge = <<>>
    /\ sessions = NoSessions

IdleSessions == sessions = NoSessions

(***************************************************************************)
(* The scheduler loop: template_scheduler_loop of                          *)
(* services/template_scheduler.py, from its call on.                       *)
(***************************************************************************)
\* pc: "sleeping" in asyncio.sleep (line 167 or 175), "ready" when the sleep
\* is over, "scanning" inside check_and_send_templates, "stopped" when an
\* exception has left the loop.  active: the scans begun and not ended.
\* slept: the loop has slept since the last scan ended.  sleptBefore: the
\* value of slept when the last scan began.
LoopStart ==
    [pc |-> "sleeping", active |-> 0, slept |-> FALSE, sleptBefore |-> TRUE,
     lastOutcome |-> "none", raised |-> 0]

\* Lines 167 and 175: asyncio.sleep returns after the delay.
Sleep ==
    /\ loop.pc = "sleeping"
    /\ TimePasses
    /\ loop' = [loop EXCEPT !.pc = "ready", !.slept = TRUE]

\* Lines 168-170: the loop calls check_and_send_templates and awaits it.
StartScan ==
    /\ loop.pc = "ready"
    /\ loop' = [loop EXCEPT !.pc = "scanning", !.active = @ + 1,
                            !.sleptBefore = loop.slept]
    /\ UNCHANGED <<schedVars, learnVars, parseVars, draftVars, appVars, extraVars>>

\* check_and_send_templates raised: with the loop's except clause left out,
\* the exception ends the loop.
AfterScanUncaught(lp, outcome) ==
    [lp EXCEPT !.pc = IF outcome = "committed" THEN "sleeping" ELSE "stopped",
               !.active = @ - 1, !.slept = FALSE, !.lastOutcome = outcome,
               !.raised = IF outcome = "committed" THEN @ ELSE 1]

\* The next scan begun as soon as the last one has ended.
AfterScanNoSleep(lp, outcome) ==
    [lp EXCEPT !.pc = "ready", !.active = @ - 1, !.slept = FALSE,
               !.lastOutcome = outcome,
               !.raised = IF outcome = "committed" THEN @ ELSE 1]

\* Lines 170-175: the scan has returned or raised (an exception of the
\* scan's body or of the commit leaves get_session after the rollback);
\* `except Exception` logs it, and the loop goes to asyncio.sleep(interval)
\* in both cases.  raised: a scan has raised.
AfterScan(lp, outcome) ==
    [lp EXCEPT !.pc = "sleeping", !.active = @ - 1, !.slept = FALSE,
               !.lastOutcome = outcome,
               !.raised = IF outcome = "committed" THEN @ ELSE 1]

\* The awaited scan runs and ends.
FinishScan ==
    /\ loop.pc = "scanning"
    /\ CheckAndSendTemplates
    /\ loop' = AfterScan(loop, lastScan'.outcome)

\* An enabled checkin_day template and two reservations checking in on day
\* 1, the second one with a name of a word or of whitespace only.
InitLoop ==
    /\ today = 0
    /\ hour = ScanHours[1]
    /\ templates =
         [tid \in TemplateIds |->
            [trigger |-> "checkin_day", enabled |-> tid = 1, house_code |-> None,
             hours_offset |-> DefaultSendHour, body |-> TemplateBody]]
    /\ \E nm \in {GoodName, BlankName} :
         reservations =
           [rid \in ResIds |->
              [check_in |-> IF rid = 1 THEN 24 ELSE 39,
               check_out |-> 83,
               guest_name |-> IF rid = 1 THEN GoodName ELSE nm,
               listing_house |-> "193",
               listing_name |-> "Room",
               num_guests |-> "2"]]
    /\ log = {}
    /\ sendCount = [p \in Pairs |-> 0]
    /\ lastScan = NoScan
    /\ loop = LoopStart

IdleLoop == loop = LoopStart

(***************************************************************************)
(* Template detection: services/template_detector.py, run by               *)
(* sync_reservations (api/routes.py lines 423-428) after the import.       *)
(***************************************************************************)
MaxRows == 4            \* messages rows in storage

\* The [:150] of _normalize_body.
NormalizeCap == 150

\* The default of min_occurrences, the value sync_reservations runs with.
MinOccurrences == 3

\* Line 27: the greetings a first line is dropped for.
Greetings ==
    { <<"h", "i", " ">>, <<"h", "e", "l", "l", "o", " ">>,
      <<"h", "e", "y", " ">>, <<"d", "e", "a", "r", " ">> }

\* The position of the first "\n" of the text, or one past its end.
FirstNewline(text) ==
    LET at == {i \in 1 .. Len(text) : text[i] = "\n"}
    IN IF at = {} THEN Len(text) + 1 ELSE SetMin(at)

\* " ".join(text.split()): the words of the text, one space between them.
CollapseWhitespace(text) ==
    LET marked == [i \in 1 .. Len(text) |->
                     IF ~IsSpace(text[i]) THEN text[i]
                     ELSE IF i > 1 /\ ~IsSpace(text[i - 1]) THEN " " ELSE ""]
        words  == SelectSeq(marked, LAMBDA c : c # "")
    IN IF words # <<>> /\ words[Len(words)] = " "
       THEN SubSeq(words, 1, Len(words) - 1)
       ELSE words

\* _normalize_body, lines 22-32.  lines[0] is the text up to the first
\* newline of body.strip() and lines[1:] what follows that newline; joining
\* the lines with " " and splitting at whitespace is splitting the text they
\* come from at whitespace.
NormalizeBody(body) ==
    LET text  == Strip(body)
        cut   == FirstNewline(text)
        first == SubSeq(text, 1, cut - 1)
        kept  == IF \E g \in Greetings : Lower(Take(first, Len(g))) = g
                 THEN SubSeq(text, cut + 1, Len(text))
                 ELSE text
    IN Take(CollapseWhitespace(kept), NormalizeCap)

\* Lines 40-43: the ids of the rows with sender "host".
HostIds(rows) == {i \in 1 .. Len(rows) : rows[i].sender = "host"}

\* Line 48: the fingerprint of each row, in the order of the rows.
RECURSIVE FingerprintsOf(_)
FingerprintsOf(rows) ==
    IF rows = <<>> THEN <<>>
    ELSE <<NormalizeBody(Head(rows).body)>> \o FingerprintsOf(Tail(rows))

\* Lines 45-49: fingerprints[fp], for the fingerprint of each host row.
SameFingerprint(rows) ==
    LET fp == FingerprintsOf(rows)
    IN [i \in HostIds(rows) |-> {j \in HostIds(rows) : fp[j] = fp[i]}]

\* Lines 51-55.
TemplateIdsOf(rows) ==
    LET ids == SameFingerprint(rows)
    IN {i \in HostIds(rows) : Cardinality(ids[i]) >= MinOccurrences}

\* Lines 69-72.
NonTemplateIdsOf(rows) ==
    LET ids == SameFingerprint(rows)
    IN {i \in HostIds(rows) : Cardinality(ids[i]) < MinOccurrences}

\* detect_and_tag_templates, lines 35-85: the rows it leaves and the number
\* it returns.  Line 57 returns before either UPDATE when no fingerprint
\* reaches min_occurrences.
DetectAndTagTemplates(rows) ==
    LET template_ids     == TemplateIdsOf(rows)
        non_template_ids == NonTemplateIdsOf(rows)
    IN IF template_ids = {}
       THEN [rows |-> rows, returned |-> 0]
       ELSE [rows |->
               [i \in 1 .. Len(rows) |->
                  IF i \in template_ids THEN [rows[i] EXCEPT !.is_template = TRUE]
                  ELSE IF i \in non_template_ids
                       THEN [rows[i] EXCEPT !.is_template = FALSE]
                       ELSE rows[i]],
             returned |-> Cardinality(template_ids)]

\* Message bodies: a template with its greeting line and other spacing, and
\* without; a one-off reply; two long bodies that differ after their first
\* 150 characters only.
WifiGreeted == <<"H", "e", "y", " ", "B", "o", "\n", "W", "i", "f", "i", " ", " ", "o", "n", "\n">>
WifiPlain == <<"W", "i", "f", "i", " ", "o", "n">>
OneOff == <<"O", "k">>
LongA == [i \in 1 .. NormalizeCap |-> "x"] \o <<"A">>
LongB == [i \in 1 .. NormalizeCap |-> "x"] \o <<"B">>
HostBodies == {WifiGreeted, WifiPlain, OneOff, LongA, LongB}

\* Lines 410-417 of routes.py: a message as the import stores it.
ImportedMessages ==
    {[sender |-> "host", body |-> b, is_template |-> FALSE] : b \in HostBodies}
    \cup {[sender |-> "guest", body |-> WifiPlain, is_template |-> FALSE]}

\* Rows in storage before the application runs: is_template is a column of
\* the table, and a row may carry a tag that no run of this code gave it.
StoredMessages ==
    ImportedMessages
    \cup {[sender |-> "host", body |-> b, is_template |-> TRUE] : b \in {WifiPlain, OneOff}}

NoDetection == [rows |-> <<>>, before |-> <<>>, returned |-> -1]

\* sync_reservations, lines 258-434: the import commits its new messages,
\* then detect_and_tag_templates runs in a session of its own.
SyncReservations ==
    /\ \E new \in {<<>>} \cup {<<m>> : m \in ImportedMessages} :
          /\ Len(detector.rows) + Len(new) <= MaxRows
          /\ LET imported == detector.rows \o new
                 run      == DetectAndTagTemplates(imported)
             IN detector' = [rows |-> run.rows, before |-> imported,
                             returned |-> run.returned]
    /\ UNCHANGED <<schedVars, learnVars, parseVars, draftVars, appVars, loopVars,
                   sessions, limiter>>

InitDetector ==
    /\ detector \in
         {[rows |-> t, before |-> t, returned |-> -1] :
            t \in {<<>>} \cup {<<m>> : m \in StoredMessages}}

IdleDetector == detector = NoDetection

(***************************************************************************)
(* Login rate limiter: core/auth.py lines 17-45, used by POST /auth/login  *)
(* (api/routes.py lines 46-81).                                            *)
(***************************************************************************)
MaxClock == 1200        \* time.time() of the last request, in seconds
MaxFailed == 6          \* requests answered 401, over all ips
ClockStep == 300        \* seconds between two readings of the clock that differ

MAX_ATTEMPTS == 5
LOCKOUT_SECONDS == 15 * 60

\* settings.owner_pin and settings.cleaner_pin of a deployment.
owner_pin == "1234"
cleaner_pin == "4321"
Pins == {owner_pin, cleaner_pin, "0000"}

\* request.headers.get("cf-connecting-ip") or request.client.host
Ips == {"203.0.113.7", "198.51.100.9"}

\* Lines 30-31: the attempts of the ip that are less than LOCKOUT_SECONDS old.
RecentAttempts(attempts, now) ==
    SelectSeq(attempts, LAMBDA t : now - t < LOCKOUT_SECONDS)

\* What check_rate_limit returns: None, or a number of seconds.
NoWait == [none |-> TRUE, seconds |-> 0]
Wait(seconds) == [none |-> FALSE, seconds |-> seconds]

\* check_rate_limit, lines 26-35: the list it leaves for the ip and what it
\* returns, None or the seconds until the oldest kept attempt is
\* LOCKOUT_SECONDS old.
CheckRateLimit(attempts, now) ==
    LET kept == RecentAttempts(attempts, now)
    IN [attempts |-> kept,
        wait |-> IF Len(kept) >= MAX_ATTEMPTS
                 THEN Wait(LOCKOUT_SECONDS - (now - kept[1]))
                 ELSE NoWait]

\* record_failed_attempt, lines 38-40.
RecordFailedAttempt(attempts, now) == Append(attempts, now)

\* clear_attempts, lines 43-45.
ClearAttempts == <<>>

NoLogin ==
    [ip |-> None, status |-> 0, at |-> 0, wait |-> NoWait, pin |-> None, lockedBefore |-> -1]

\* now: time.time().  attempts: _failed_attempts.  failed: per ip, the
\* times of all its requests answered 401.  lockedAt: per ip, the time of the
\* failed attempt that last brought its list to MAX_ATTEMPTS entries, or -1.
\* last: the last request and its answer, with lockedAt of its ip before it.
LimiterStart ==
    [now |-> 0,
     attempts |-> [ip \in Ips |-> <<>>],
     failed |-> [ip \in Ips |-> <<>>],
     lockedAt |-> [ip \in Ips |-> -1],
     last |-> NoLogin]

\* The requests answered 401 so far.
FailedCount ==
    LET total[S \in SUBSET Ips] ==
            IF S = {} THEN 0
            ELSE LET ip == CHOOSE x \in S : TRUE
                 IN Len(limiter.failed[ip]) + total[S \ {ip}]
    IN total[Ips]

\* POST /auth/login, lines 46-81.
Login(ip, pin) ==
    LET now     == limiter.now
        checked == CheckRateLimit(limiter.attempts[ip], now)
        answer(status) ==
            [ip |-> ip, status |-> status, at |-> now, wait |-> checked.wait, pin |-> pin,
             lockedBefore |-> limiter.lockedAt[ip]]
    IN /\ FailedCount < MaxFailed
       /\ limiter' =
            IF ~checked.wait.none
            THEN [limiter EXCEPT !.attempts[ip] = checked.attempts,
                                 !.last = answer(429)]
            ELSE IF pin \in {owner_pin, cleaner_pin}
            THEN [limiter EXCEPT !.attempts[ip] = ClearAttempts,
                                 !.last = answer(200)]
            ELSE LET recorded == RecordFailedAttempt(checked.attempts, now)
                 IN [limiter EXCEPT
                       !.attempts[ip] = recorded,
                       !.failed[ip] = Append(@, now),
                       !.lockedAt[ip] = IF Len(recorded) >= MAX_ATTEMPTS THEN now ELSE @,
                       !.last = answer(401)]
       /\ UNCHANGED <<schedVars, learnVars, parseVars, draftVars, appVars, loopVars,
                      sessions, detector>>

\* The clock between two requests.
ClockAdvances ==
    /\ limiter.now + ClockStep <= MaxClock
    /\ limiter' = [limiter EXCEPT !.now = @ + ClockStep, !.last = NoLogin]
    /\ UNCHANGED <<schedVars, learnVars, parseVars, draftVars, appVars, loopVars,
                   sessions, detector>>

InitLogin == limiter = LimiterStart

IdleLogin == limiter = LimiterStart

IdleExtra == IdleSessions /\ IdleDetector /\ IdleLogin

\* The scheduler alone: the learner, the parser and the drafter stay idle.
StartScheduler ==
    InitScheduler /\ IdleLearner /\ IdleParser /\ IdleDrafter /\ IdleApp /\ IdleExtra /\ IdleLoop

NextScheduler == Scan \/ Tick

SpecScheduler == StartScheduler /\ [][NextScheduler]_vars

\* The scheduler over the templates and reservations of InitGates.
StartGates ==
    InitGates /\ IdleLearner /\ IdleParser /\ IdleDrafter /\ IdleApp /\ IdleExtra /\ IdleLoop

NextGates == Scan \/ Tick

SpecGates == StartGates /\ [][NextGates]_vars

\* Send requests running at once.
StartSessions ==
    /\ IdleScheduler /\ InitSessions /\ IdleParser /\ IdleDrafter /\ IdleApp /\ IdleLoop
    /\ IdleDetector /\ IdleLogin

NextSessions ==
    \E s \in Sessions : SelectCategory(s) \/ FlushNewRow(s) \/ CommitCounters(s)

SpecSessions == StartSessions /\ [][NextSessions]_vars

\* sync_reservations over the messages rows of InitDetector.
StartDetector ==
    /\ IdleScheduler /\ IdleLearner /\ IdleParser /\ IdleDrafter /\ IdleApp /\ IdleLoop
    /\ IdleSessions /\ InitDetector /\ IdleLogin

NextDetector == SyncReservations

SpecDetector == StartDetector /\ [][NextDetector]_vars

\* Login requests and the clock.
StartLogin ==
    /\ IdleScheduler /\ IdleLearner /\ IdleParser /\ IdleDrafter /\ IdleApp /\ IdleLoop
    /\ IdleSessions /\ IdleDetector /\ InitLogin

NextLogin == ClockAdvances \/ \E ip \in Ips, pin \in Pins : Login(ip, pin)

SpecLogin == StartLogin /\ [][NextLogin]_vars

\* template_scheduler_loop, once something has called it.
StartLoop ==
    InitLoop /\ IdleLearner /\ IdleParser /\ IdleDrafter /\ IdleApp /\ IdleExtra

NextLoop == Sleep \/ StartScan \/ FinishScan

SpecLoop == StartLoop /\ [][NextLoop]_vars

\* The send route alone, over the reservations of InitLearner.
StartLearner ==
    /\ today = 0
    /\ hour = ScanHours[1]
    /\ templates = <<>>
    /\ log = {}
    /\ sendCount = <<>>
    /\ lastScan = NoScan
    /\ InitLearner
    /\ IdleParser
    /\ IdleDrafter
    /\ IdleApp
    /\ IdleExtra
    /\ IdleLoop

NextLearner == SendMessage

SpecLearner == StartLearner /\ [][NextLearner]_vars

\* The parser alone.
StartParser ==
    IdleScheduler /\ IdleLearner /\ InitParser /\ IdleDrafter /\ IdleApp /\ IdleExtra /\ IdleLoop

NextParser == ParseDraft

SpecParser == StartParser /\ [][NextParser]_vars

\* The draft route alone.
StartDrafter ==
    /\ today = 0
    /\ hour = ScanHours[1]
    /\ templates = <<>>
    /\ log = {}
    /\ sendCount = <<>>
    /\ lastScan = NoScan
    /\ InitDrafter
    /\ IdleParser
    /\ IdleApp
    /\ IdleExtra
    /\ IdleLoop

NextDrafter == GenerateDraft

SpecDrafter == StartDrafter /\ [][NextDrafter]_vars

\* The application from its start to its shutdown, over the templates and
\* reservations of InitScheduler, while time passes.  Its steps are the ones
\* the started application takes by itself; time passes whatever it does.
StartApp ==
    InitScheduler /\ IdleLearner /\ IdleParser /\ IdleDrafter /\ IdleApp /\ IdleExtra /\ IdleLoop

NextApp == Lifespan \/ Tick \/ Shutdown

SpecApp == StartApp /\ [][NextApp]_vars /\ WF_vars(Lifespan) /\ WF_vars(Tick)

(***************************************************************************)
(* Claims about the template scheduler, checked under SpecScheduler.       *)
(***************************************************************************)
\* The calendar day of a reservation's anchor for a trigger.
AnchorDay(trigger, r) ==
    IF trigger \in {"day_before_checkin", "checkin_day", "day_after_checkin"}
    THEN r.check_in \div 24
    ELSE r.check_out \div 24

\* The signed day offset the specification gives each trigger.
TriggerOffset(trigger) ==
    CASE trigger = "day_before_checkin"  -> -1
      [] trigger = "checkin_day"         -> 0
      [] trigger = "day_after_checkin"   -> 1
      [] trigger = "day_before_checkout" -> -1
      [] trigger = "checkout_day"        -> 0

\* C1: over any sequence of scans, the send collaborator returns successfully
\* at most once for any (template, reservation) pair.
C1_SentAtMostOnce == \A p \in Pairs : sendCount[p] <= 1

\* C2: a template is sent for a reservation only in a scan whose day is the
\* reservation's anchor day plus the trigger's signed offset.
C2_SentOnTriggerDay ==
    \A p \in lastScan.sent :
       today = AnchorDay(templates[p[1]].trigger, reservations[p[2]])
               + TriggerOffset(templates[p[1]].trigger)

\* C3: a send that raises for one candidate does not keep the scan from
\* sending to the other candidates (the scan sends exactly what it would
\* have sent had no send raised, less the pairs whose send raised), and no
\* log row exists afterwards for a pair whose send raised.
C3_SendFailureIsolated ==
    /\ lastScan.sent = lastScan.sentIfNoFailure \ lastScan.failed
    /\ \A p \in lastScan.failed : ~AlreadySent(log, p)

\* A scan in which the send raised for one reservation and succeeded
\* afterwards for another one.
C3_Witness ==
    \E p \in lastScan.failed, q \in lastScan.sent :
       /\ p[2] # q[2]
       /\ (p[1] < q[1] \/ (p[1] = q[1] /\ p[2] < q[2]))
       /\ AlreadySent(log, q)

\* The pairs whose send raised in an earlier scan of the day of the last
\* scan, and those whose send last raised on a day before it.
FailedEarlierToday == {p \in Pairs : lastScan.failedOn[p] = today}
FailedBeforeToday ==
    {p \in Pairs : lastScan.failedOn[p] >= 0 /\ lastScan.failedOn[p] < today}

\* The pairs for which the last scan called the send collaborator.
Attempted == lastScan.sent \cup lastScan.failed

\* C17: a scan writes no log row for a pair whose send raised; a later scan
\* of the same day that ran and in which the pair's send did not raise
\* leaves the pair sent and logged (a scan whose commit itself failed is
\* left out); and no scan of a later day calls the send collaborator for the
\* pair.
C17_FailedPairRetried ==
    /\ \A p \in lastScan.failed : ~AlreadySent(log, p)
    /\ \A p \in FailedEarlierToday :
         (lastScan.outcome \in {"committed", "raised"} /\ p \notin lastScan.failed)
            => (sendCount[p] > 0 /\ AlreadySent(log, p))
    /\ \A p \in FailedBeforeToday : p \notin Attempted

\* C26: every committed log row belongs to a pair for which the send
\* collaborator has returned, its body is the template's body with the
\* placeholders substituted for the reservation, and a row of a pair sent
\* in the last scan records exactly the body the collaborator was given.
C26_LogRowIsSentBody ==
    \A row \in log :
       LET p == <<row.template_id, row.reservation_id>>
       IN /\ sendCount[p] >= 1
          /\ row.body_sent = SubstitutePlaceholders(templates[p[1]].body,
                                                    reservations[p[2]])
          /\ p \in lastScan.sent =>
                [pair |-> p, body |-> row.body_sent] \in lastScan.delivered

\* A committed row of the last scan whose body differs from the stored
\* template body (a placeholder was substituted).
C26_Witness ==
    \E row \in log :
       /\ <<row.template_id, row.reservation_id>> \in lastScan.sent
       /\ row.body_sent # templates[row.template_id].body
       /\ lastScan.failed # {}

(***************************************************************************)
(* Claims about the learner, checked under SpecLearner.                    *)
(***************************************************************************)
\* The last request stored its message and ran the learner on it.
Learned == lastMsg.status = 200
LastCategory ==
    IF lastMsg.message.feedback_note = None THEN "General"
    ELSE lastMsg.message.feedback_note
PrevTotal(c) == IF c \in DOMAIN prevStats THEN prevStats[c].total_drafts ELSE 0
PrevUnedited(c) == IF c \in DOMAIN prevStats THEN prevStats[c].sent_unedited ELSE 0
OtherRowsUnchanged(c) ==
    /\ DOMAIN stats = DOMAIN prevStats \cup {c}
    /\ \A d \in DOMAIN prevStats : d # c => stats[d] = prevStats[d]

\* The final body a learned entry records.
FinalOf(entry) == SubSeq(entry.answer, Len(AnswerPrefix) + 1, Len(entry.answer))

\* An edit of an AI draft that changed more than case and whitespace.
RealEdit ==
    /\ Learned
    /\ lastMsg.message.ai_generated
    /\ lastMsg.message.was_edited
    /\ lastMsg.message.original_ai_draft.text # <<>>
    /\ lastMsg.message.body # <<>>
    /\ Fingerprint(lastMsg.message.original_ai_draft.text)
         # Fingerprint(lastMsg.message.body)

\* A learned entry of the category recording a final body with the
\* fingerprint of this one was there before the call.
LearnedBefore ==
    \E i \in 1 .. Len(prevKnowledge) :
       /\ prevKnowledge[i].source = "learned"
       /\ prevKnowledge[i].category = LastCategory
       /\ Fingerprint(FinalOf(prevKnowledge[i])) = Fingerprint(lastMsg.message.body)

\* C4: a call that returns on an edited AI message whose draft and final body
\* differ beyond case and whitespace creates exactly one learned entry, and
\* none when a learned entry of the category already records a
\* fingerprint-identical final body.
C4_LearnsOnce ==
    (RealEdit /\ ~lastMsg.learnRaised) =>
       IF LearnedBefore THEN knowledge = prevKnowledge
       ELSE /\ Len(knowledge) = Len(prevKnowledge) + 1
            /\ SubSeq(knowledge, 1, Len(prevKnowledge)) = prevKnowledge
            /\ knowledge[Len(knowledge)].source = "learned"
            /\ knowledge[Len(knowledge)].category = LastCategory

\* C5: an unedited AI message adds exactly 1 to total_drafts and to
\* sent_unedited of its category ("General" when unset), creating the row
\* when there was none, and creates no knowledge entry.
C5_UneditedCounted ==
    (Learned /\ lastMsg.message.ai_generated /\ ~lastMsg.message.was_edited) =>
       /\ LastCategory \in DOMAIN stats
       /\ stats[LastCategory].total_drafts = PrevTotal(LastCategory) + 1
       /\ stats[LastCategory].sent_unedited = PrevUnedited(LastCategory) + 1
       /\ OtherRowsUnchanged(LastCategory)
       /\ knowledge = prevKnowledge

\* An unedited AI message with no category, the first of "General".
C5_Witness ==
    /\ Learned /\ lastMsg.message.ai_generated /\ ~lastMsg.message.was_edited
    /\ lastMsg.message.feedback_note = None
    /\ "General" \notin DOMAIN prevStats
    /\ "WiFi" \in DOMAIN prevStats
    /\ stats["General"] = [total_drafts |-> 1, sent_unedited |-> 1]

\* C6: an AI message marked edited whose draft and final body have the same
\* fingerprint creates no knowledge entry and leaves sent_unedited alone.
C6_TrivialEditIgnored ==
    (/\ Learned /\ lastMsg.message.ai_generated /\ lastMsg.message.was_edited
     /\ Fingerprint(lastMsg.message.original_ai_draft.text)
          = Fingerprint(lastMsg.message.body)) =>
       /\ knowledge = prevKnowledge
       /\ stats[LastCategory].sent_unedited = PrevUnedited(LastCategory)

\* "Hi" sent as "hi " and marked edited.
C6_Witness ==
    /\ Learned /\ lastMsg.message.was_edited
    /\ lastMsg.message.original_ai_draft = Some(Hi)
    /\ lastMsg.message.body = HiSpaced
    /\ stats[LastCategory].total_drafts = PrevTotal(LastCategory) + 1

Parsed == parsed.status = "ok"

\* C8: the parser never raises, whatever text the model returns.
C8_ParserNeverRaises == parsed.status # "raised"

\* The text between the first reply label and the next confidence or
\* category label line (or the end of the text), trimmed.
CategoryMarker == <<"\n">> \o CategoryLabel
ReplyRegion(text) ==
    LET from == SetMin({i \in 1 .. Len(text) : HasAt(text, i, ReplyLabel)})
                  + Len(ReplyLabel)
        to == SetMin({j \in from .. Len(text) + 1 :
                        \/ j = Len(text) + 1
                        \/ HasAt(text, j, ConfidenceMarker)
                        \/ HasAt(text, j, CategoryMarker)})
    IN Strip(SubSeq(text, from, to - 1))

\* A line of the text starts with a confidence or category label.
HasLabelLine(text) ==
    \E j \in 1 .. Len(text) :
       /\ j = 1 \/ text[j - 1] = "\n"
       /\ HasAt(text, j, ConfidenceLabel) \/ HasAt(text, j, CategoryLabel)

\* The text has a reply label, and the first one ends its line.
ReplyLabelled(text) ==
    \E i \in 1 .. Len(text) :
       /\ HasAt(text, i, ReplyLabel \o <<"\n">>)
       /\ \A j \in 1 .. i - 1 : ~HasAt(text, j, ReplyLabel)

\* C9: the reply returned is the text between the reply label and the next
\* recognized label line or the end of the text, trimmed; it holds no confidence
\* or category label line; and the specification's example parses to
\* ("Hello there", 0.85, "WiFi").
C9_ReplyIsLabelledRegion ==
    /\ (Parsed /\ ReplyLabelled(raw.text)) =>
          /\ parsed.draft = ReplyRegion(raw.text)
          /\ ~HasLabelLine(parsed.draft)
    /\ (Parsed /\ raw = Some(SpecExample)) =>
          /\ parsed.draft = HelloThere
          /\ FracEq(parsed.confidence, [num |-> 85, den |-> 100])
          /\ parsed.category = WiFi

\* Numerals and the numbers they denote.
Numerals ==
    {[text |-> <<"1", ".", "1">>, value |-> [num |-> 11, den |-> 10]],
     [text |-> <<".", "1">>, value |-> [num |-> 1, den |-> 10]],
     [text |-> <<"1">>, value |-> [num |-> 1, den |-> 1]],
     [text |-> <<"1", "1">>, value |-> [num |-> 11, den |-> 1]],
     [text |-> <<"1", ".">>, value |-> [num |-> 1, den |-> 1]],
     [text |-> <<".", "1", "1">>, value |-> [num |-> 11, den |-> 100]],
     [text |-> <<"1", ".", "5">>, value |-> [num |-> 3, den |-> 2]],
     [text |-> <<"0", ".", "8", "5">>, value |-> [num |-> 17, den |-> 20]],
     [text |-> <<"0", ".", "8">>, value |-> [num |-> 4, den |-> 5]]}
CategoryTokens == {WiFi, WiFi \o <<"1">>, <<"1">>, <<"1", "1">>, General, WiFi \o WiFi}

Occurrences(text, label) == {i \in 1 .. Len(text) : HasAt(text, i, label)}

\* What follows the first occurrence of the label, whitespace skipped.
AfterFirstLabel(text, label) ==
    LET from == SetMin(Occurrences(text, label)) + Len(label)
        solid == {k \in from .. Len(text) : ~IsSpace(text[k])}
    IN IF solid = {} THEN <<>> ELSE SubSeq(text, SetMin(solid), Len(text))

\* The first occurrence of the label is followed by exactly this token.
LabelledWith(text, label, token, class) ==
    /\ Occurrences(text, label) # {}
    /\ LET rest == AfterFirstLabel(text, label)
       IN /\ HasAt(rest, 1, token)
          /\ Len(rest) = Len(token) \/ ~InClass(class, rest[Len(token) + 1])

\* C10: when the parser returns, the confidence is the labelled number
\* clamped into [0, 1], or 0.7 when the label is absent or its value no
\* number; the category is the labelled token when the closed list has it
\* and "General" otherwise; so the confidence is within [0, 1] and the
\* category within the closed list.
C10_ConfidenceAndCategory ==
    Parsed =>
       /\ FracLeq(Zero, parsed.confidence) /\ FracLeq(parsed.confidence, One)
       /\ parsed.category \in QUESTION_CATEGORIES
       /\ Occurrences(raw.text, ConfidenceLabel) = {} =>
             FracEq(parsed.confidence, [num |-> 7, den |-> 10])
       /\ (/\ Cardinality(Occurrences(raw.text, ConfidenceLabel)) = 1
           /\ LET rest == AfterFirstLabel(raw.text, ConfidenceLabel)
              IN rest = <<>> \/ ~IsNumChar(rest[1])) =>
             FracEq(parsed.confidence, [num |-> 7, den |-> 10])
       /\ \A n \in Numerals :
             LabelledWith(raw.text, ConfidenceLabel, n.text, "num") =>
                FracEq(parsed.confidence,
                       IF n.value.num > n.value.den THEN One ELSE n.value)
       /\ Occurrences(raw.text, CategoryLabel) = {} => parsed.category = General
       /\ \A tok \in CategoryTokens :
             LabelledWith(raw.text, CategoryLabel, tok, "word") =>
                parsed.category = (IF tok \in QUESTION_CATEGORIES THEN tok ELSE General)

\* "CONFIDENCE: 1.5" parsed: 1.0 and "General".
C10_Witness ==
    /\ Parsed
    /\ raw = Some(ClampExample)
    /\ FracEq(parsed.confidence, One)
    /\ parsed.category = General

(***************************************************************************)
(* Claims about draft generation, checked under SpecDrafter.               *)
(***************************************************************************)
\* The last request reached the drafter.
Drafted == lastDraft.status \notin {0, 503}
UnknownReservation == lastDraft.rid \notin DOMAIN reservations
\* The rows of a reservation that are neither templates nor drafts.
RealRows(rid) ==
    {messages[k] : k \in {i \in 1 .. Len(messages) :
                            /\ messages[i].reservation_id = rid
                            /\ ~messages[i].is_template
                            /\ ~messages[i].is_draft}}
EmptyConversation == ~UnknownReservation /\ RealRows(lastDraft.rid) = {}
InputError == UnknownReservation \/ EmptyConversation

\* C11: an unknown reservation and an empty conversation are reported with a
\* 4xx status, a failure of the model call of whatever kind with a 5xx
\* status, and no response but a 200 carries a draft result.
C11_DraftErrorsReported ==
    Drafted =>
       /\ InputError => lastDraft.status \in 400 .. 499
       /\ lastDraft.callFailed => lastDraft.status \in 500 .. 599
       /\ lastDraft.status # 200 => lastDraft.result.null

\* C12: a request calls the model client at most once: once when the
\* reservation exists and has a message that is neither template nor draft,
\* never on an input error, and once only when the call fails.
C12_ModelCalledOnce ==
    lastDraft.status # 0 =>
       /\ lastDraft.modelCalls <= 1
       /\ (Drafted /\ ~InputError) => lastDraft.modelCalls = 1
       /\ InputError => lastDraft.modelCalls = 0
       /\ lastDraft.callFailed => lastDraft.modelCalls = 1

\* C13: no step of a draft request, successful or failed, changes a
\* reservation, message, knowledge entry, category row or log row.
C13_DraftReadOnly ==
    [][UNCHANGED <<reservations, messages, knowledge, stats, log>>]_vars

\* A draft was returned for a conversation with messages and knowledge.
C13_Witness ==
    /\ lastDraft.status = 200
    /\ ~lastDraft.result.null
    /\ lastDraft.result.knowledge_used # <<>>
    /\ Len(messages) > HistoryCap

\* The entry carries the tag of a property.
TaggedFor(entry, property) ==
    \/ property = "193" /\ Contains(Lower(entry.answer), Tag193)
    \/ property = "195" /\ Contains(Lower(entry.answer), Tag195)
OtherProperty(property) ==
    CASE property = "193" -> "195"
      [] property = "195" -> "193"
      [] OTHER            -> None
\* Tagged for the other property and not for this one.
ExclusivelyOther(entry, property) ==
    TaggedFor(entry, OtherProperty(property)) /\ ~TaggedFor(entry, property)
SelectedIds == {lastDraft.prompt.knowledge[i] : i \in 1 .. Len(lastDraft.prompt.knowledge)}

\* C14: the knowledge put in the prompt is exactly the active entries less
\* those tagged for the other property only.
C14_KnowledgeSelected ==
    lastDraft.modelCalls = 1 =>
       SelectedIds =
          {i \in 1 .. Len(knowledge) :
             /\ knowledge[i].active
             /\ ~ExclusivelyOther(knowledge[i],
                                  reservations[lastDraft.rid].listing_house)}

\* C15: the conversation section holds the most recent 20 of the
\* reservation's messages that are neither templates nor drafts (all of them
\* when there are fewer), oldest first.
C15_HistoryCapped ==
    lastDraft.modelCalls = 1 =>
       LET conv == lastDraft.prompt.conversation
           real == RealRows(lastDraft.rid)
       IN /\ Len(conv) = Min(HistoryCap, Cardinality(real))
          /\ \A i \in 1 .. Len(conv) : \A j \in 1 .. Len(conv) :
                i < j => conv[i].time < conv[j].time
          /\ \A i \in 1 .. Len(conv) :
                \E m \in real :
                   /\ conv[i].time = m.timestamp
                   /\ conv[i].body = m.body
                   /\ conv[i].role = (IF m.sender = "guest" THEN "GUEST" ELSE "HOST")
          /\ \A m \in real :
                \/ \E i \in 1 .. Len(conv) : conv[i].time = m.timestamp
                \/ \A i \in 1 .. Len(conv) : m.timestamp < conv[i].time

\* More than 20 messages, stored newest first: the 20 newest are kept.
C15_Witness ==
    /\ lastDraft.modelCalls = 1
    /\ Cardinality(RealRows(lastDraft.rid)) > HistoryCap
    /\ Len(lastDraft.prompt.conversation) = HistoryCap
    /\ messages[1].timestamp > messages[2].timestamp

(***************************************************************************)
(* Claims about the send route, checked under SpecLearner.                 *)
(***************************************************************************)
\* Host Tools accepted the message of the last request (the route went past
\* routes.py line 646).
HostToolsSent == lastMsg.status \notin {0, 404, 502}

\* C16: when Host Tools has accepted the message and record_reply_outcome
\* raises, whatever it raises, the Message row is still committed and the
\* request still reports success.
C16_LearnerErrorIsolated ==
    (HostToolsSent /\ lastMsg.learnRaised) =>
       (lastMsg.stored /\ lastMsg.status = 200)

(***************************************************************************)
(* Claims about the application, checked under SpecApp.                    *)
(***************************************************************************)
\* A pair the scheduler would attempt in a scan now: enabled template,
\* trigger day and send hour reached, house filter passed, no log row.
Eligible(p) ==
    /\ \E i \in 1 .. Len(Candidates(SortedSeq(TemplateIds))) :
         Candidates(SortedSeq(TemplateIds))[i] = p
    /\ ~HouseSkip(templates[p[1]], reservations[p[2]])
    /\ ~HourSkip(templates[p[1]], hour)
    /\ ~AlreadySent(log, p)

\* C18: once the application runs, a scan of the template scheduler
\* eventually happens while it runs, and a pair that is eligible while the
\* application runs is eventually attempted (unless the application is shut
\* down first).
C18_SchedulerRuns ==
    /\ (app.phase = "running") ~> (app.phase = "stopped" \/ lastScan.outcome # "none")
    /\ \A p \in Pairs :
         (app.phase = "running" /\ Eligible(p))
            ~> (app.phase = "stopped" \/ p \in Attempted)

(***************************************************************************)
(* Claims about the scheduler's filters, checked under SpecGates.          *)
(***************************************************************************)
\* The template's scope names one property: it is set and is not the value
\* that stands for all properties.
Scoped(t) == t.house_code \notin {None, "both"}

\* C19: a scan calls the send collaborator for a template that is scoped to
\* one property only for reservations of that property (or of a listing that
\* stands for both properties), never for a reservation of the other
\* property or of unknown property; and the scope filter passes every
\* reservation for a template with no scope or with the scope that stands
\* for all properties: each candidate of such a template whose send hour is
\* reached is attempted by the scan, or has its log row.
C19_ScopeFilter ==
    /\ \A p \in Attempted :
         Scoped(templates[p[1]]) =>
            reservations[p[2]].listing_house \in {templates[p[1]].house_code, "both"}
    /\ \A p \in lastScan.candidates :
         (/\ ~Scoped(templates[p[1]])
          /\ hour >= templates[p[1]].hours_offset
          /\ lastScan.outcome \in {"committed", "commit_failed"})
            => (p \in Attempted \/ AlreadySent(log, p))

\* C20: a scan whose hour is before a template's send hour calls the send
\* collaborator for none of the template's pairs and writes no log row for
\* them; a scan whose hour is at or after the send hour and that ends
\* normally attempts every candidate of the template (its trigger day is
\* today) that passes the house filter and has no log row yet.
C20_HourGate ==
    [][lastScan'.outcome # "none" =>
         /\ \A p \in Pairs :
              hour < templates[p[1]].hours_offset =>
                 /\ p \notin lastScan'.sent \cup lastScan'.failed
                 /\ AlreadySent(log', p) => AlreadySent(log, p)
         /\ \A p \in lastScan'.candidates :
              (/\ hour >= templates[p[1]].hours_offset
               /\ ~HouseSkip(templates[p[1]], reservations[p[2]])
               /\ ~AlreadySent(log, p)
               /\ lastScan'.outcome # "raised")
                 => p \in lastScan'.sent \cup lastScan'.failed]_vars

\* A scan at the very hour of the template: the pair is sent and logged.
C20_Witness ==
    \E p \in lastScan.sent :
       /\ hour = templates[p[1]].hours_offset
       /\ sendCount[p] = 1
       /\ AlreadySent(log, p)

(***************************************************************************)
(* Claims about stored messages, checked under SpecLearner.                *)
(***************************************************************************)
\* C21: a Message row the send route has committed with was_edited set has
\* an original_ai_draft that is not NULL, not empty, and differs from the
\* body under the normalized comparison (the fingerprint).  Rows written by
\* the sync and the webhook leave was_edited at its default, FALSE.
C21_EditedHasDraft ==
    (lastMsg.stored /\ lastMsg.message.was_edited) =>
       /\ ~lastMsg.message.original_ai_draft.null
       /\ lastMsg.message.original_ai_draft.text # <<>>
       /\ Fingerprint(lastMsg.message.original_ai_draft.text)
            # Fingerprint(lastMsg.message.body)

(***************************************************************************)
(* Claims about concurrent learner invocations, checked under              *)
(* SpecSessions.                                                           *)
(***************************************************************************)
\* No invocation is in flight.
Quiescent == \A s \in Sessions : sessions.inv[s].pc = "idle"

ConcTotal == CommittedRow.total_drafts

\* C22: when the invocations started so far have all ended, the category's
\* total_drafts is its initial value, 0, plus the number of invocations,
\* whether the row existed beforehand or not.
C22_NoLostIncrement == Quiescent => ConcTotal = sessions.invoked

\* C23: no step lowers a category's total_drafts or sent_unedited, or
\* removes its row.  (The rows are keyed by category: the unique constraint
\* of the column keeps a second row of a category from being committed.)
C23_CountersMonotone ==
    [][\A c \in DOMAIN stats :
          /\ c \in DOMAIN stats'
          /\ stats'[c].total_drafts >= stats[c].total_drafts
          /\ stats'[c].sent_unedited >= stats[c].sent_unedited]_vars

(***************************************************************************)
(* Claims about a failing learner, checked under SpecLearner.              *)
(***************************************************************************)
\* C24: after a send request in which record_reply_outcome raised, the
\* committed category rows and knowledge entries are the ones from before
\* the request.
C24_NoPartialWrites ==
    (HostToolsSent /\ lastMsg.learnRaised) =>
       (stats = prevStats /\ knowledge = prevKnowledge)

(***************************************************************************)
(* Claims about prompt assembly, checked under SpecDrafter.                *)
(***************************************************************************)
\* The request reached _build_user_prompt: the drafter is set up, the
\* reservation exists and has a real message.
Assembling == Drafted /\ ~InputError

\* C25: for an existing reservation with a real message the assembler
\* returns a prompt whatever the booking fields are, and a house the
\* booking does not have (no listing, or a listing without house) is shown
\* as "unknown".
C25_AssemblyTotal ==
    Assembling =>
       /\ lastDraft.prompt # NoPrompt
       /\ reservations[lastDraft.rid].listing_house = None
             => lastDraft.prompt.house = "unknown"

(***************************************************************************)
(* Claims about the scheduler loop, checked under SpecLoop.                *)
(***************************************************************************)
\* C27: at most one scan is in progress at any time, and every scan was
\* begun after the loop had slept since the scan before it ended (or since
\* the loop was started).
C27_ScansNeverOverlap ==
    /\ loop.active <= 1
    /\ loop.active = 1 <=> loop.pc = "scanning"
    /\ loop.sleptBefore

\* A second scan in progress, after a first one has ended.
C27_Witness ==
    /\ loop.pc = "scanning"
    /\ loop.lastOutcome # "none"
    /\ loop.sleptBefore

\* C30: an exception of a scan never ends the loop: the loop is never
\* stopped, after a scan that raised it sleeps, and when that sleep is over
\* the next scan can begin.
C30_LoopSurvivesFailedScan ==
    /\ loop.pc # "stopped"
    /\ (loop.lastOutcome \in {"raised", "commit_failed"} /\ loop.active = 0)
          => loop.pc \in {"sleeping", "ready"}
    /\ (loop.lastOutcome \in {"raised", "commit_failed"} /\ loop.pc = "ready")
          => ENABLED StartScan

\* A scan in progress after the scan before it raised.
C30_Witness ==
    /\ loop.pc = "scanning"
    /\ loop.lastOutcome = "raised"
    /\ loop.raised = 1

InLockout ==
    /\ limiter.last.status # 0
    /\ limiter.last.lockedBefore # -1
    /\ limiter.last.at - limiter.last.lockedBefore < LOCKOUT_SECONDS

\* The failed attempts of the ip of the last request in the LOCKOUT_SECONDS
\* before it, the request itself left out.
FailedBefore ==
    LET ip == limiter.last.ip
        n  == IF limiter.last.status = 401
              THEN Len(limiter.failed[ip]) - 1
              ELSE Len(limiter.failed[ip])
    IN {k \in 1 .. n : limiter.last.at - limiter.failed[ip][k] < LOCKOUT_SECONDS}

\* C29: once an ip has made 5 failed login attempts, every login attempt
\* from it, also with a correct PIN, is rejected for the 15 minutes after the
\* fifth failure; an ip with fewer than 5 failed attempts in the last 15
\* minutes is never rejected by the rate limiter.
C29_LockoutAfterFifth ==
    /\ InLockout => limiter.last.status = 429
    /\ (limiter.last.status # 0 /\ Cardinality(FailedBefore) < MAX_ATTEMPTS)
           => limiter.last.status # 429

====
